---- MODULE Spec2Model ----
(***************************************************************************)
(* MoonDeckAppProxy (the app-session coordinator): a BehaviorSubject that  *)
(* holds either null or one MoonDeckAppData snapshot, and the operations   *)
(* that replace it.  Async operations are cut at their awaits: a task runs *)
(* synchronously from its entry (or from the await it resumes at) to the   *)
(* next await, and only there may another task run.                        *)
(***************************************************************************)
EXTENDS Integers, Sequences, FiniteSets, TLC

VARIABLES subject, tasks, latch

vars == <<subject, tasks, latch>>

(* ---------------------------------------------------------------- bounds *)

\* canRedirect calls made on one session before the model stops calling it.
MaxRedirectCalls == 2

(* ------------------------------------------------------------ constants *)

\* terminateApp(moonDeckAppId, 5000)
TerminateTimeoutMs == 5000

\* The value of the subject when no app is set.
NULL == [isNull |-> TRUE]

\* The callers of the proxy: each runs one operation at a time.
TaskIds == {1, 2}

\* Arguments setApp is called with.
SteamAppIds == {100, 23}
MoonDeckAppIds == {555, 42}
Names == {"Game X", "Game Y"}

(* ------------------------------------------------------- pure functions *)

Digits == <<"0", "1", "2", "3", "4", "5", "6", "7", "8", "9">>

\* `${n}` for a non-negative integer: its decimal digits.
RECURSIVE NumToString(_)
NumToString(n) ==
    IF n < 10 THEN Digits[n + 1]
    ELSE NumToString(n \div 10) \o Digits[(n % 10) + 1]

\* The new snapshot is spread over the stored one: redirected carries over.
NewAppData_merged(steamAppId, moonDeckAppId, name, sessionOptions) ==
    [steamAppId |-> steamAppId,
     moonDeckAppId |-> moonDeckAppId,
     name |-> name,
     redirected |-> (subject # [isNull |-> TRUE] /\ subject.redirected),
     beingKilled |-> FALSE,
     beingSuspended |-> FALSE,
     sessionOptions |-> sessionOptions]

\* The object literal setApp stores.
NewAppData(steamAppId, moonDeckAppId, name, sessionOptions) ==
    [steamAppId |-> steamAppId,
     moonDeckAppId |-> moonDeckAppId,
     name |-> name,
     redirected |-> FALSE,
     beingKilled |-> FALSE,
     beingSuspended |-> FALSE,
     sessionOptions |-> sessionOptions]

\* The snapshot is rebuilt from its identities instead of being spread: the
\* three flags fall back to false.
WithNameSetToAppId_rebuilt(value, nameSetToAppId) ==
    [value EXCEPT !.sessionOptions.nameSetToAppId = nameSetToAppId,
                  !.redirected = FALSE,
                  !.beingKilled = FALSE,
                  !.beingSuspended = FALSE]

\* The flag is written as true whatever the argument.
WithNameSetToAppId_fixedTrue(value, nameSetToAppId) ==
    [value EXCEPT !.sessionOptions.nameSetToAppId = TRUE]

\* { ...value, sessionOptions: { ...value.sessionOptions, nameSetToAppId } }
WithNameSetToAppId(value, nameSetToAppId) ==
    [value EXCEPT !.sessionOptions.nameSetToAppId = nameSetToAppId]

\* The latch is not set.
WithRedirected_unset(value) == value

\* { ...value, redirected: true }
WithRedirected(value) == [value EXCEPT !.redirected = TRUE]

\* The snapshot is returned as it was: beingKilled is not set.
WithBeingKilled_unset(value) == value

\* { ...value, beingKilled: true }
WithBeingKilled(value) == [value EXCEPT !.beingKilled = TRUE]

\* beingSuspended is not set.
WithBeingSuspended_unset(value) == value

\* { ...value, beingSuspended: true }
WithBeingSuspended(value) == [value EXCEPT !.beingSuspended = TRUE]

\* Identity instead of deep equality: two snapshots built apart never match.
isEqual_byReference(a, b) == FALSE

\* lodash isEqual on two snapshots: deep structural equality.
isEqual(a, b) == a = b

\* The shortcut is named after the id it is keyed by.
ShortcutName_ofMoonDeckAppId(value, changeToAppId) ==
    IF changeToAppId THEN NumToString(value.moonDeckAppId) ELSE value.name

\* The name changeName hands to setShortcutName.
ShortcutName(value, changeToAppId) ==
    IF changeToAppId THEN NumToString(value.steamAppId) ELSE value.name

\* The app id changeName, terminateApp and killRunner are called with.
TargetAppId(value) == value.moonDeckAppId

\* The negation is dropped: the fallback follows a successful terminateApp.
NeedsKillRunner_unnegated(terminated) == terminated

\* !await terminateApp(...): the fallback is taken when terminateApp
\* resolved to false.
NeedsKillRunner(terminated) == ~terminated

(* ----------------------------------------------------------- the events *)

NextEvent(value) == [type |-> "next", value |-> value]

RenameCall(value, changeToAppId) ==
    [type |-> "setShortcutName",
     appId |-> TargetAppId(value),
     name |-> ShortcutName(value, changeToAppId)]

TerminateCall(value) ==
    [type |-> "terminateApp",
     appId |-> TargetAppId(value),
     timeout |-> TerminateTimeoutMs]

KillRunnerCall(value) == [type |-> "kill_runner", app_id |-> TargetAppId(value)]

CloseSteamCall == [type |-> "closeSteam", force |-> FALSE]

Resolved(of, ok) == [type |-> "resolved", of |-> of, ok |-> ok]

Toast(msg) == [type |-> "toast", msg |-> msg, output |-> "warn"]

LoggerEvent(level) == [type |-> "logger", level |-> level]

(* ------------------------------------------------------------ the tasks *)

\* A caller with no operation started yet.
IdleTask ==
    [op |-> "none", arg |-> FALSE, pc |-> "idle", status |-> "none",
     stack |-> <<>>, changeToAppId |-> FALSE, result |-> FALSE,
     nameSetToAppId |-> FALSE, log |-> <<>>, entry |-> NULL,
     prev |-> [op |-> "none", arg |-> FALSE, status |-> "none", notes |-> 0]]

\* The labels at which a task is inside a synchronous stretch of code; every
\* other label is an await a task is suspended at.
SyncPcs == {"applySessionOptions", "changeName", "clearApp",
            "closeSteamOnHost", "killApp", "suspendApp"}

InFlight(tk) == tk.pc # "idle"

\* Run-to-completion: a task steps only while no other task is inside a
\* synchronous stretch.
CanStep(t) == \A u \in TaskIds \ {t} : tasks[u].pc \notin SyncPcs

RECURSIVE CountType(_, _)
CountType(log, type) ==
    IF log = <<>> THEN 0
    ELSE (IF Head(log).type = type THEN 1 ELSE 0) + CountType(Tail(log), type)

Summary(tk) ==
    [op |-> tk.op, arg |-> tk.arg, status |-> tk.status,
     notes |-> CountType(tk.log, "next")]

\* A caller invokes operation op.
Begin(tk, op, arg) ==
    [IdleTask EXCEPT !.op = op, !.arg = arg, !.pc = op, !.status = "pending",
                     !.changeToAppId = arg, !.entry = subject,
                     !.prev = Summary(tk)]

Log(tk, event) == [tk EXCEPT !.log = Append(@, event)]

\* An async function returns: to the await of its caller, or the promise of
\* the operation is fulfilled.
Return(tk) ==
    IF tk.stack = <<>>
    THEN [tk EXCEPT !.pc = "idle", !.status = "fulfilled"]
    ELSE [tk EXCEPT !.pc = Head(tk.stack), !.stack = Tail(tk.stack)]

\* An exception nobody catches: the promise of the operation is rejected.
Throw(tk) == [tk EXCEPT !.pc = "idle", !.status = "rejected", !.stack = <<>>]

\* A call of an async function of the proxy, awaited at label back.
CallFn(tk, fn, back) == [tk EXCEPT !.pc = fn, !.stack = <<back>> \o @]

\* The history of one session: the canRedirect calls and true results, and
\* what the last setShortcutName call that succeeded named the shortcut after
\* ("appId", "name", or "none" before any).
NoLatch == [calls |-> 0, grants |-> 0, renamed |-> "none"]

Init ==
    /\ subject = NULL
    /\ tasks = [t \in TaskIds |-> IdleTask]
    /\ latch = NoLatch

(* ------------------------------------------------------- the operations *)

\* A caller starts one of the async operations.
Call(t, op, arg) ==
    /\ ~InFlight(tasks[t])
    /\ CanStep(t)
    /\ op \in SyncPcs
    /\ (op # "changeName" => arg = FALSE)
    /\ tasks' = [tasks EXCEPT ![t] = Begin(tasks[t], op, arg)]
    /\ UNCHANGED <<subject, latch>>

setApp(t, steamAppId, moonDeckAppId, name, sessionOptions) ==
    /\ ~InFlight(tasks[t])
    /\ CanStep(t)
    /\ LET value == NewAppData(steamAppId, moonDeckAppId, name, sessionOptions)
           tk == Log(Begin(tasks[t], "setApp", FALSE), NextEvent(value))
       IN /\ subject' = value
          /\ tasks' = [tasks EXCEPT ![t] = Return(tk)]
    /\ latch' = NoLatch

canRedirect(t) ==
    /\ ~InFlight(tasks[t])
    /\ CanStep(t)
    /\ latch.calls < MaxRedirectCalls
    /\ LET tk == Begin(tasks[t], "canRedirect", FALSE)
       IN IF subject = NULL \/ subject.redirected
          THEN /\ tasks' = [tasks EXCEPT ![t] = Return([tk EXCEPT !.result = FALSE])]
               /\ latch' = IF subject = NULL THEN latch
                           ELSE [latch EXCEPT !.calls = @ + 1]
               /\ UNCHANGED subject
          ELSE /\ subject' = WithRedirected(subject)
               /\ tasks' = [tasks EXCEPT ![t] =
                     Return([Log(tk, NextEvent(WithRedirected(subject)))
                                EXCEPT !.result = TRUE])]
               /\ latch' = [latch EXCEPT !.calls = @ + 1, !.grants = @ + 1]

\* The options default to false instead of ending the call when no app is
\* set: changeName is called either way.
applySessionOptions_defaulted(t) ==
    /\ tasks[t].pc = "applySessionOptions"
    /\ CanStep(t)
    /\ LET tk == tasks[t]
           nameSetToAppId == IF subject = NULL THEN FALSE
                             ELSE subject.sessionOptions.nameSetToAppId
       IN tasks' = [tasks EXCEPT ![t] =
             CallFn([tk EXCEPT !.changeToAppId = nameSetToAppId],
                    "changeName", "applySessionOptions_62")]
    /\ UNCHANGED <<subject, latch>>

applySessionOptions(t) ==
    /\ tasks[t].pc = "applySessionOptions"
    /\ CanStep(t)
    /\ LET tk == tasks[t]
       IN IF subject = NULL
          THEN tasks' = [tasks EXCEPT ![t] = Return(tk)]
          ELSE tasks' = [tasks EXCEPT ![t] =
                 CallFn([tk EXCEPT !.changeToAppId = subject.sessionOptions.nameSetToAppId],
                        "changeName", "applySessionOptions_62")]
    /\ UNCHANGED <<subject, latch>>

\* The failed rename is not reported.
applySessionOptions_resume_silent(t) ==
    /\ tasks[t].pc = "applySessionOptions_62"
    /\ CanStep(t)
    /\ tasks' = [tasks EXCEPT ![t] = Return(tasks[t])]
    /\ UNCHANGED <<subject, latch>>

applySessionOptions_resume(t) ==
    /\ tasks[t].pc = "applySessionOptions_62"
    /\ CanStep(t)
    /\ LET tk == tasks[t]
       IN tasks' = [tasks EXCEPT ![t] =
             Return(IF tk.result THEN tk
                    ELSE Log(tk, Toast("Failed to change shortcut name!")))]
    /\ UNCHANGED <<subject, latch>>

\* changeName up to its await: the null check and the setShortcutName call.
changeName(t) ==
    /\ tasks[t].pc = "changeName"
    /\ CanStep(t)
    /\ LET tk == tasks[t]
       IN IF subject = NULL
          THEN tasks' = [tasks EXCEPT ![t] = Return([tk EXCEPT !.result = FALSE])]
          ELSE tasks' = [tasks EXCEPT ![t] =
                 [Log(tk, RenameCall(subject, tk.changeToAppId))
                    EXCEPT !.pc = "changeName_await"]]
    /\ UNCHANGED <<subject, latch>>

\* changeName from the result of setShortcutName to its return.
changeName_resume(t) ==
    /\ tasks[t].pc = "changeName_await"
    /\ CanStep(t)
    /\ \E result \in BOOLEAN :
         LET tk == [Log(tasks[t], Resolved("setShortcutName", result))
                      EXCEPT !.result = result]
         IN /\ latch' = IF result
                        THEN [latch EXCEPT !.renamed =
                                IF tk.changeToAppId THEN "appId" ELSE "name"]
                        ELSE latch
            /\ IF ~result
               THEN /\ tasks' = [tasks EXCEPT ![t] = Return(tk)]
                    /\ UNCHANGED subject
               ELSE IF subject = NULL
               THEN /\ tasks' = [tasks EXCEPT ![t] = Throw(tk)]
                    /\ UNCHANGED subject
               ELSE LET newValue == WithNameSetToAppId(subject, tk.changeToAppId)
                    IN IF ~isEqual(subject, newValue)
                       THEN /\ subject' = newValue
                            /\ tasks' = [tasks EXCEPT ![t] =
                                  Return(Log(tk, NextEvent(newValue)))]
                       ELSE /\ tasks' = [tasks EXCEPT ![t] = Return(tk)]
                            /\ UNCHANGED subject

\* The slot is emptied at once, without the rename.
clearApp_withoutRename(t) ==
    /\ tasks[t].pc = "clearApp"
    /\ CanStep(t)
    /\ IF subject = NULL
       THEN /\ tasks' = [tasks EXCEPT ![t] = Return(tasks[t])]
            /\ UNCHANGED <<subject, latch>>
       ELSE /\ subject' = NULL
            /\ tasks' = [tasks EXCEPT ![t] = Return(Log(tasks[t], NextEvent(NULL)))]
            /\ latch' = NoLatch

clearApp(t) ==
    /\ tasks[t].pc = "clearApp"
    /\ CanStep(t)
    /\ LET tk == tasks[t]
       IN IF subject = NULL
          THEN tasks' = [tasks EXCEPT ![t] = Return(tk)]
          ELSE tasks' = [tasks EXCEPT ![t] =
                 CallFn([tk EXCEPT !.changeToAppId = FALSE], "changeName", "clearApp_104")]
    /\ UNCHANGED <<subject, latch>>

clearApp_resume(t) ==
    /\ tasks[t].pc = "clearApp_104"
    /\ CanStep(t)
    /\ subject' = NULL
    /\ tasks' = [tasks EXCEPT ![t] = Return(Log(tasks[t], NextEvent(NULL)))]
    /\ latch' = NoLatch

closeSteamOnHost(t) ==
    /\ tasks[t].pc = "closeSteamOnHost"
    /\ CanStep(t)
    /\ LET tk == tasks[t]
       IN IF subject = NULL
          THEN tasks' = [tasks EXCEPT ![t] = Return(tk)]
          ELSE tasks' = [tasks EXCEPT ![t] =
                 [Log(tk, CloseSteamCall) EXCEPT !.pc = "closeSteam_await"]]
    /\ UNCHANGED <<subject, latch>>

\* commandProxy.closeSteam settles: its rejection is the rejection of
\* closeSteamOnHost.
closeSteamOnHost_resume(t) ==
    /\ tasks[t].pc = "closeSteam_await"
    /\ CanStep(t)
    /\ \E ok \in BOOLEAN :
         LET tk == Log(tasks[t], Resolved("closeSteam", ok))
         IN tasks' = [tasks EXCEPT ![t] = IF ok THEN Return(tk) ELSE Throw(tk)]
    /\ UNCHANGED <<subject, latch>>

\* killApp returns without writing the flag back.
killApp_restore_skipped(t, tk) ==
    /\ tasks' = [tasks EXCEPT ![t] = Return(tk)]
    /\ UNCHANGED subject

\* The flag is written into the snapshot killApp was called on, not into the
\* stored one.
killApp_restore_stale(t, tk) ==
    IF ~tk.nameSetToAppId
    THEN /\ tasks' = [tasks EXCEPT ![t] = Return(tk)]
         /\ UNCHANGED subject
    ELSE LET newValue == WithNameSetToAppId(tk.entry, tk.nameSetToAppId)
         IN IF ~isEqual(subject, newValue)
            THEN /\ subject' = newValue
                 /\ tasks' = [tasks EXCEPT ![t] = Return(Log(tk, NextEvent(newValue)))]
            ELSE /\ tasks' = [tasks EXCEPT ![t] = Return(tk)]
                 /\ UNCHANGED subject

\* killApp ends by emptying the slot.
killApp_restore_clearing(t, tk) ==
    /\ subject' = NULL
    /\ tasks' = [tasks EXCEPT ![t] = Return(Log(tk, NextEvent(NULL)))]

\* The end of killApp: the flag read before the rename is written back.
killApp_restore(t, tk) ==
    IF ~tk.nameSetToAppId
    THEN /\ tasks' = [tasks EXCEPT ![t] = Return(tk)]
         /\ UNCHANGED subject
    ELSE IF subject = NULL
    THEN /\ tasks' = [tasks EXCEPT ![t] = Throw(tk)]
         /\ UNCHANGED subject
    ELSE LET newValue == WithNameSetToAppId(subject, tk.nameSetToAppId)
         IN IF ~isEqual(subject, newValue)
            THEN /\ subject' = newValue
                 /\ tasks' = [tasks EXCEPT ![t] = Return(Log(tk, NextEvent(newValue)))]
            ELSE /\ tasks' = [tasks EXCEPT ![t] = Return(tk)]
                 /\ UNCHANGED subject

\* The rename is skipped when the flag is already false.
killApp_renameIfSet(t) ==
    /\ tasks[t].pc = "killApp"
    /\ CanStep(t)
    /\ LET tk == tasks[t]
       IN IF subject = NULL
          THEN /\ tasks' = [tasks EXCEPT ![t] = Return(tk)]
               /\ UNCHANGED subject
          ELSE LET value == WithBeingKilled(subject)
                   marked == [Log(tk, NextEvent(value))
                                EXCEPT !.nameSetToAppId = value.sessionOptions.nameSetToAppId,
                                       !.changeToAppId = FALSE]
               IN /\ subject' = value
                  /\ tasks' = [tasks EXCEPT ![t] =
                        IF marked.nameSetToAppId
                        THEN CallFn(marked, "changeName", "killApp_125")
                        ELSE [marked EXCEPT !.pc = "killApp_125"]]
    /\ UNCHANGED latch

\* beingKilled is not stored before the rename is called.
killApp_deferredMark(t) ==
    /\ tasks[t].pc = "killApp"
    /\ CanStep(t)
    /\ LET tk == tasks[t]
       IN IF subject = NULL
          THEN tasks' = [tasks EXCEPT ![t] = Return(tk)]
          ELSE tasks' = [tasks EXCEPT ![t] =
                 CallFn([tk EXCEPT !.nameSetToAppId = subject.sessionOptions.nameSetToAppId,
                                   !.changeToAppId = FALSE],
                        "changeName", "killApp_125")]
    /\ UNCHANGED <<subject, latch>>

\* killApp up to its first await: beingKilled is stored, the flag is read,
\* changeName(false) is called.
killApp(t) ==
    /\ tasks[t].pc = "killApp"
    /\ CanStep(t)
    /\ LET tk == tasks[t]
       IN IF subject = NULL
          THEN /\ tasks' = [tasks EXCEPT ![t] = Return(tk)]
               /\ UNCHANGED subject
          ELSE LET value == WithBeingKilled(subject)
               IN /\ subject' = value
                  /\ tasks' = [tasks EXCEPT ![t] =
                        CallFn([Log(tk, NextEvent(value))
                                  EXCEPT !.nameSetToAppId = value.sessionOptions.nameSetToAppId,
                                         !.changeToAppId = FALSE],
                               "changeName", "killApp_125")]
    /\ UNCHANGED latch

\* killApp after changeName: terminateApp is called.
killApp_terminate(t) ==
    /\ tasks[t].pc = "killApp_125"
    /\ CanStep(t)
    /\ LET tk == tasks[t]
       IN IF subject = NULL
          THEN tasks' = [tasks EXCEPT ![t] = Throw(tk)]
          ELSE tasks' = [tasks EXCEPT ![t] =
                 [Log(tk, TerminateCall(subject)) EXCEPT !.pc = "terminateApp_await"]]
    /\ UNCHANGED <<subject, latch>>

\* killApp from the result of terminateApp: either the fallback is called
\* (killRunner up to its await) or killApp runs to its end.
killApp_terminated(t) ==
    /\ tasks[t].pc = "terminateApp_await"
    /\ CanStep(t)
    /\ \E terminated \in BOOLEAN :
         LET tk == Log(tasks[t], Resolved("terminateApp", terminated))
         IN IF NeedsKillRunner(terminated)
            THEN /\ LET warned == Log(tk, Toast("Failed to terminate, trying to kill!"))
                    IN IF subject = NULL
                       THEN tasks' = [tasks EXCEPT ![t] = Throw(warned)]
                       ELSE tasks' = [tasks EXCEPT ![t] =
                              [Log(warned, KillRunnerCall(subject))
                                 EXCEPT !.pc = "killRunner_await"]]
                 /\ UNCHANGED subject
            ELSE killApp_restore(t, tk)
    /\ UNCHANGED latch

\* The fault callPluginMethod threw is logged and thrown again.
killRunner_rethrowing(t) ==
    /\ tasks[t].pc = "killRunner_await"
    /\ CanStep(t)
    /\ \E outcome \in {"success", "failure", "fault"} :
         LET tk == Log(tasks[t], Resolved("kill_runner", outcome = "success"))
         IN tasks' = [tasks EXCEPT ![t] =
               IF outcome = "fault" THEN Throw(Log(tk, LoggerEvent("critical")))
               ELSE IF outcome = "failure"
               THEN [Log(tk, LoggerEvent("error")) EXCEPT !.pc = "killApp_131"]
               ELSE [tk EXCEPT !.pc = "killApp_131"]]
    /\ UNCHANGED <<subject, latch>>

\* killRunner from the outcome of callPluginMethod to its return: a failure
\* and a thrown fault are logged, nothing is thrown.
killRunner(t) ==
    /\ tasks[t].pc = "killRunner_await"
    /\ CanStep(t)
    /\ \E outcome \in {"success", "failure", "fault"} :
         LET tk == Log(tasks[t], Resolved("kill_runner", outcome = "success"))
             logged == IF outcome = "failure" THEN Log(tk, LoggerEvent("error"))
                       ELSE IF outcome = "fault" THEN Log(tk, LoggerEvent("critical"))
                       ELSE tk
         IN tasks' = [tasks EXCEPT ![t] = [logged EXCEPT !.pc = "killApp_131"]]
    /\ UNCHANGED <<subject, latch>>

\* killApp after killRunner.
killApp_resume(t) ==
    /\ tasks[t].pc = "killApp_131"
    /\ CanStep(t)
    /\ killApp_restore(t, tasks[t])
    /\ UNCHANGED latch

suspendApp(t) ==
    /\ tasks[t].pc = "suspendApp"
    /\ CanStep(t)
    /\ LET tk == tasks[t]
       IN IF subject = NULL
          THEN /\ tasks' = [tasks EXCEPT ![t] = Return(tk)]
               /\ UNCHANGED subject
          ELSE LET value == WithBeingSuspended(subject)
               IN /\ subject' = value
                  /\ tasks' = [tasks EXCEPT ![t] =
                        CallFn(Log(tk, NextEvent(value)), "killApp", "suspendApp_146")]
    /\ UNCHANGED latch

suspendApp_resume(t) ==
    /\ tasks[t].pc = "suspendApp_146"
    /\ CanStep(t)
    /\ tasks' = [tasks EXCEPT ![t] = Return(tasks[t])]
    /\ UNCHANGED <<subject, latch>>

(* --------------------------------------------------- the specifications *)

Step(t) ==
    \/ \E op \in SyncPcs, arg \in BOOLEAN : Call(t, op, arg)
    \/ \E steamAppId \in SteamAppIds, moonDeckAppId \in MoonDeckAppIds,
          name \in Names, nameSetToAppId \in BOOLEAN :
         setApp(t, steamAppId, moonDeckAppId, name,
                [nameSetToAppId |-> nameSetToAppId])
    \/ canRedirect(t)
    \/ applySessionOptions(t)
    \/ applySessionOptions_resume(t)
    \/ changeName(t)
    \/ changeName_resume(t)
    \/ clearApp(t)
    \/ clearApp_resume(t)
    \/ closeSteamOnHost(t)
    \/ closeSteamOnHost_resume(t)
    \/ killApp(t)
    \/ killApp_terminate(t)
    \/ killApp_terminated(t)
    \/ killRunner(t)
    \/ killApp_resume(t)
    \/ suspendApp(t)
    \/ suspendApp_resume(t)

\* The callers serialize their calls: one operation at a time runs from its
\* call to its completion.
Next == Step(1)

Spec == Init /\ [][Next]_vars

\* Two callers.  The first sets one app and runs the kill sequence on it;
\* whenever it is suspended at an await, the second may clear the app and set
\* another one.
KillSteps(t) ==
    \/ \E nameSetToAppId \in BOOLEAN :
         setApp(t, 100, 555, "Game X", [nameSetToAppId |-> nameSetToAppId])
    \/ \E op \in {"killApp", "suspendApp"} : Call(t, op, FALSE)
    \/ suspendApp(t)
    \/ killApp(t)
    \/ changeName(t)
    \/ changeName_resume(t)
    \/ killApp_terminate(t)
    \/ killApp_terminated(t)
    \/ killRunner(t)
    \/ killApp_resume(t)
    \/ suspendApp_resume(t)

ClearSteps(t) ==
    \/ Call(t, "clearApp", FALSE)
    \/ clearApp(t)
    \/ changeName(t)
    \/ changeName_resume(t)
    \/ clearApp_resume(t)
    \/ \E nameSetToAppId \in BOOLEAN :
         setApp(t, 23, 42, "Game Y", [nameSetToAppId |-> nameSetToAppId])

NextInterleaved == KillSteps(1) \/ ClearSteps(2)

SpecInterleaved == Init /\ [][NextInterleaved]_vars

(* ------------------------------------------------------------ vocabulary *)

\* Operation op of task tk has completed (its promise is settled).
Done(tk, op) == tk.op = op /\ tk.pc = "idle"

\* The remote call named of has resolved to ok.
HasResolved(log, of, ok) ==
    \E i \in 1..Len(log) :
        log[i].type = "resolved" /\ log[i].of = of /\ log[i].ok = ok

\* A task is running or has run the kill sequence on an app that was set.
KillRun(tk) == tk.op \in {"killApp", "suspendApp"} /\ tk.entry # NULL

(* ------------------------------------------------------------------- C1 *)

\* C1: in a killApp run the kill_runner call is issued exactly once when
\* terminateApp resolved to false and not at all when it resolved to true,
\* whatever setShortcutName resolved to; terminateApp resolves at most once.
C1_KillRunnerIffTerminateFailed ==
    \A t \in TaskIds :
        LET tk == tasks[t]
            kills == CountType(tk.log, "kill_runner")
        IN KillRun(tk) =>
             /\ CountType(tk.log, "terminateApp") <= 1
             /\ (HasResolved(tk.log, "terminateApp", FALSE) => kills = 1)
             /\ (HasResolved(tk.log, "terminateApp", TRUE) => kills = 0)
             /\ (kills > 0 => HasResolved(tk.log, "terminateApp", FALSE))
             /\ (Done(tk, tk.op) =>
                   \/ HasResolved(tk.log, "terminateApp", FALSE)
                   \/ HasResolved(tk.log, "terminateApp", TRUE))

\* A completed killApp whose rename failed, whose terminateApp failed and
\* whose fallback was called once.
C1_Witness ==
    \E t \in TaskIds :
        /\ Done(tasks[t], "killApp")
        /\ tasks[t].entry # NULL
        /\ HasResolved(tasks[t].log, "setShortcutName", FALSE)
        /\ HasResolved(tasks[t].log, "terminateApp", FALSE)
        /\ CountType(tasks[t].log, "kill_runner") = 1

(* ------------------------------------------------------------------- C2 *)

\* C2: when killApp completes on an app that was set, the stored snapshot
\* has beingKilled = true, whatever setShortcutName, terminateApp and
\* kill_runner resolved to.
C2_KilledFlagAfterKillApp ==
    \A t \in TaskIds :
        (Done(tasks[t], "killApp") /\ tasks[t].entry # NULL) =>
            /\ tasks[t].status = "fulfilled"
            /\ subject # NULL
            /\ subject.beingKilled

\* killApp completed after a failed rename, a failed terminateApp and a
\* kill_runner call that threw.
C2_Witness ==
    \E t \in TaskIds :
        /\ Done(tasks[t], "killApp")
        /\ tasks[t].entry # NULL
        /\ HasResolved(tasks[t].log, "setShortcutName", FALSE)
        /\ HasResolved(tasks[t].log, "terminateApp", FALSE)
        /\ LoggerEvent("critical") \in {tasks[t].log[i] : i \in 1..Len(tasks[t].log)}
        /\ subject.beingKilled

(* ------------------------------------------------------------------- C3 *)

\* C3: when the kill sequence completes, sessionOptions.nameSetToAppId is
\* what it was when killApp was invoked: true again if it was true, false if
\* it was false.
C3_NameFlagRestoredAfterKillApp ==
    \A t \in TaskIds :
        (KillRun(tasks[t]) /\ Done(tasks[t], tasks[t].op)) =>
            /\ subject # NULL
            /\ subject.sessionOptions.nameSetToAppId
                 = tasks[t].entry.sessionOptions.nameSetToAppId

\* killApp completed on an app whose flag was true, after a rename that
\* succeeded (and so had cleared the flag) and a terminateApp that succeeded.
C3_Witness ==
    \E t \in TaskIds :
        /\ Done(tasks[t], "killApp")
        /\ tasks[t].entry # NULL
        /\ tasks[t].entry.sessionOptions.nameSetToAppId
        /\ HasResolved(tasks[t].log, "setShortcutName", TRUE)
        /\ HasResolved(tasks[t].log, "terminateApp", TRUE)
        /\ subject.sessionOptions.nameSetToAppId

(* ------------------------------------------------------------------- C4 *)

\* C4: canRedirect is a one-shot latch.  On one session (latch counts the
\* calls and the true results since the last setApp or clearApp) it returns
\* true on the first call and only there, false on every later call, whatever
\* other operations ran in between; with no app set it returns false,
\* stores nothing and leaves the subject null.
C4_CanRedirectOneShot ==
    /\ latch.grants <= 1
    /\ \A t \in TaskIds :
         LET tk == tasks[t]
         IN Done(tk, "canRedirect") =>
              /\ (tk.entry = NULL =>
                    ~tk.result /\ tk.log = <<>> /\ subject = NULL)
              /\ (tk.entry # NULL =>
                    /\ (tk.result <=> latch.calls = 1)
                    /\ subject.redirected
                    /\ (~tk.result => tk.log = <<>> /\ subject = tk.entry))

\* The second canRedirect call on a session returned false, with a killApp
\* run between the two calls.
C4_Witness ==
    \E t \in TaskIds :
        /\ Done(tasks[t], "canRedirect")
        /\ tasks[t].prev.op = "killApp"
        /\ latch.calls = 2
        /\ latch.grants = 1
        /\ ~tasks[t].result

(* ------------------------------------------------------------------- C5 *)

\* The decimal strings of the app ids setApp is called with.
Decimal == (100 :> "100") @@ (23 :> "23") @@ (555 :> "555") @@ (42 :> "42")

\* The first two events of a changeName run on an app that was set.
RenameOf(tk) == tk.log[1]

ChangeNameCalled(tk) ==
    tk.op = "changeName" /\ tk.entry # NULL /\ tk.log # <<>>

\* C5 as stated: changeName(true) hands setShortcutName the decimal string of
\* the second identity setApp was given (555 after setApp(100, 555, "Game X"))
\* and changeName(false) the stored name, both keyed by that second identity.
C5_RenameToSecondIdentity ==
    \A t \in TaskIds :
        LET tk == tasks[t]
        IN ChangeNameCalled(tk) =>
             /\ RenameOf(tk).type = "setShortcutName"
             /\ RenameOf(tk).appId = tk.entry.moonDeckAppId
             /\ RenameOf(tk).name =
                  IF tk.arg THEN Decimal[tk.entry.moonDeckAppId] ELSE tk.entry.name

\* C5 amended: changeName(true) hands setShortcutName the decimal string of
\* the first identity setApp was given (steamAppId: "100" after
\* setApp(100, 555, "Game X")) and changeName(false) the stored name; the call
\* is keyed by the second identity (moonDeckAppId: 555).
C5_RenameToSteamAppId ==
    \A t \in TaskIds :
        LET tk == tasks[t]
        IN ChangeNameCalled(tk) =>
             /\ RenameOf(tk).type = "setShortcutName"
             /\ RenameOf(tk).appId = tk.entry.moonDeckAppId
             /\ RenameOf(tk).name =
                  IF tk.arg THEN Decimal[tk.entry.steamAppId] ELSE tk.entry.name

\* changeName(true) after setApp(100, 555, "Game X", ...): the rename call
\* is setShortcutName(555, "100").
C5_Witness ==
    \E t \in TaskIds :
        /\ ChangeNameCalled(tasks[t])
        /\ tasks[t].arg
        /\ tasks[t].entry.steamAppId = 100
        /\ tasks[t].entry.moonDeckAppId = 555
        /\ tasks[t].entry.name = "Game X"
        /\ RenameOf(tasks[t]) =
             [type |-> "setShortcutName", appId |-> 555, name |-> "100"]

(* ------------------------------------------------------------------- C6 *)

\* C6: changeName returns true iff setShortcutName resolved to true.  On
\* success the stored nameSetToAppId is the requested value and every other
\* field is what it was; on failure the snapshot is what it was and nothing
\* is emitted; with no app set it returns false and calls nothing.
C6_ChangeNameResult ==
    \A t \in TaskIds :
        LET tk == tasks[t]
        IN Done(tk, "changeName") =>
             /\ tk.status = "fulfilled"
             /\ (tk.entry = NULL =>
                   ~tk.result /\ tk.log = <<>> /\ subject = NULL)
             /\ (tk.entry # NULL =>
                   /\ CountType(tk.log, "setShortcutName") = 1
                   /\ tk.result <=> HasResolved(tk.log, "setShortcutName", TRUE)
                   /\ ~tk.result <=> HasResolved(tk.log, "setShortcutName", FALSE)
                   /\ subject # NULL
                   /\ subject.steamAppId = tk.entry.steamAppId
                   /\ subject.moonDeckAppId = tk.entry.moonDeckAppId
                   /\ subject.name = tk.entry.name
                   /\ subject.redirected = tk.entry.redirected
                   /\ subject.beingKilled = tk.entry.beingKilled
                   /\ subject.beingSuspended = tk.entry.beingSuspended
                   /\ DOMAIN subject.sessionOptions = {"nameSetToAppId"}
                   /\ (tk.result => subject.sessionOptions.nameSetToAppId = tk.arg)
                   /\ (~tk.result =>
                         /\ subject = tk.entry
                         /\ CountType(tk.log, "next") = 0))

\* A changeName that succeeded and flipped the flag of an app that was
\* redirected and being killed.
C6_Witness ==
    \E t \in TaskIds :
        /\ Done(tasks[t], "changeName")
        /\ tasks[t].entry # NULL
        /\ tasks[t].result
        /\ tasks[t].entry.redirected
        /\ tasks[t].entry.beingKilled
        /\ tasks[t].entry.sessionOptions.nameSetToAppId # tasks[t].arg
        /\ subject.sessionOptions.nameSetToAppId = tasks[t].arg

(* ------------------------------------------------------------------- C7 *)

\* C7: two changeName calls in a row with the same argument emit at most one
\* snapshot between them, and a successful changeName whose argument is
\* already the stored nameSetToAppId emits none.
C7_ChangeNameCoalesced ==
    \A t \in TaskIds :
        LET tk == tasks[t]
            notes == CountType(tk.log, "next")
        IN (Done(tk, "changeName") /\ tk.entry # NULL) =>
             /\ (tk.entry.sessionOptions.nameSetToAppId = tk.arg => notes = 0)
             /\ ((tk.prev.op = "changeName" /\ tk.prev.arg = tk.arg) =>
                    tk.prev.notes + notes <= 1)

\* Two successful changeName calls in a row with the same argument: the
\* first emitted a snapshot, the second none.
C7_Witness ==
    \E t \in TaskIds :
        /\ Done(tasks[t], "changeName")
        /\ tasks[t].entry # NULL
        /\ tasks[t].prev.op = "changeName"
        /\ tasks[t].prev.arg = tasks[t].arg
        /\ tasks[t].prev.notes = 1
        /\ tasks[t].result
        /\ CountType(tasks[t].log, "next") = 0

(* ------------------------------------------------------------------- C8 *)

\* C8: suspendApp on an app that was set completes with beingSuspended and
\* beingKilled both true; the snapshot with beingSuspended = true is stored
\* (and is the first one emitted) before killApp runs its first step, which
\* emits the second; with no app set suspendApp stores and calls nothing.
C8_SuspendSetsBothFlags ==
    \A t \in TaskIds :
        LET tk == tasks[t]
        IN tk.op = "suspendApp" =>
             /\ (tk.entry = NULL =>
                   /\ tk.log = <<>>
                   /\ subject = NULL
                   /\ tk.pc \in {"suspendApp", "idle"})
             /\ ((tk.entry # NULL /\ tk.pc = "killApp") =>
                   /\ subject = [tk.entry EXCEPT !.beingSuspended = TRUE]
                   /\ tk.log = <<NextEvent(subject)>>)
             /\ ((tk.entry # NULL /\ Done(tk, "suspendApp")) =>
                   /\ tk.status = "fulfilled"
                   /\ subject # NULL
                   /\ subject.beingSuspended
                   /\ subject.beingKilled
                   /\ Len(tk.log) >= 2
                   /\ tk.log[1] =
                        NextEvent([tk.entry EXCEPT !.beingSuspended = TRUE])
                   /\ tk.log[2] =
                        NextEvent([tk.entry EXCEPT !.beingSuspended = TRUE,
                                                   !.beingKilled = TRUE]))

\* suspendApp completed on an app that was neither suspended nor killed
\* before, through the kill_runner fallback.
C8_Witness ==
    \E t \in TaskIds :
        /\ Done(tasks[t], "suspendApp")
        /\ tasks[t].entry # NULL
        /\ ~tasks[t].entry.beingSuspended
        /\ ~tasks[t].entry.beingKilled
        /\ CountType(tasks[t].log, "kill_runner") = 1
        /\ subject.beingSuspended
        /\ subject.beingKilled

(* ------------------------------------------------------------------- C9 *)

\* The place of the first event equal to event in log, 0 if there is none.
IndexOf(log, event) ==
    IF \E i \in 1..Len(log) : log[i] = event
    THEN CHOOSE i \in 1..Len(log) :
            log[i] = event /\ \A j \in 1..(i - 1) : log[j] # event
    ELSE 0

\* C9: clearApp on an app that was set calls setShortcutName with the
\* stored name before it empties the slot, and the slot is empty when it
\* completes, whether that rename succeeded or failed.
C9_ClearAppRenamesThenEmpties ==
    \A t \in TaskIds :
        LET tk == tasks[t]
            rename == [type |-> "setShortcutName",
                       appId |-> tk.entry.moonDeckAppId,
                       name |-> tk.entry.name]
        IN (tk.op = "clearApp" /\ tk.entry # NULL) =>
             /\ (Done(tk, "clearApp") =>
                   tk.status = "fulfilled" /\ subject = NULL)
             /\ (subject = NULL =>
                   /\ Done(tk, "clearApp")
                   /\ IndexOf(tk.log, rename) = 1
                   /\ IndexOf(tk.log, NextEvent(NULL)) = Len(tk.log)
                   /\ IndexOf(tk.log, rename) < IndexOf(tk.log, NextEvent(NULL)))

\* clearApp completed on an app whose name was set to the app id, after a
\* rename that failed.
C9_Witness ==
    \E t \in TaskIds :
        /\ Done(tasks[t], "clearApp")
        /\ tasks[t].entry # NULL
        /\ tasks[t].entry.sessionOptions.nameSetToAppId
        /\ HasResolved(tasks[t].log, "setShortcutName", FALSE)
        /\ subject = NULL

(* ------------------------------------------------------------------ C10 *)

\* The operations that need an app to be set.
GuardedOps == {"applySessionOptions", "changeName", "canRedirect", "clearApp",
               "closeSteamOnHost", "killApp", "suspendApp"}

\* C10: called with no app set, each operation but setApp does nothing: it
\* makes no remote call, raises no toast, emits no snapshot, leaves the
\* subject null and completes without throwing at its null check.
C10_NoOpWhenEmpty ==
    \A t \in TaskIds :
        LET tk == tasks[t]
        IN (tk.op \in GuardedOps /\ tk.entry = NULL) =>
             /\ tk.log = <<>>
             /\ subject = NULL
             /\ tk.pc \in {tk.op, "idle"}
             /\ tk.stack = <<>>
             /\ (tk.pc = "idle" => tk.status = "fulfilled" /\ ~tk.result)

\* The operations called with no app set, right after a clearApp emptied
\* the slot.
C10_Witness ==
    \E t \in TaskIds :
        /\ Done(tasks[t], "applySessionOptions")
        /\ tasks[t].entry = NULL
        /\ tasks[t].prev.op = "clearApp"
        /\ tasks[t].prev.notes >= 1
        /\ tasks[t].status = "fulfilled"
        /\ subject = NULL

(* ------------------------------------------------------------------ C11 *)

\* C11: a setApp step stores exactly the snapshot made of its arguments with
\* redirected, beingKilled and beingSuspended false, whatever was stored
\* before, and does nothing else: the one event of the call is that emit.
C11_SetAppReplacesSnapshot ==
    [][\A t \in TaskIds, steamAppId \in SteamAppIds,
          moonDeckAppId \in MoonDeckAppIds, name \in Names,
          nameSetToAppId \in BOOLEAN :
         setApp(t, steamAppId, moonDeckAppId, name,
                [nameSetToAppId |-> nameSetToAppId]) =>
           /\ subject' = [steamAppId |-> steamAppId,
                          moonDeckAppId |-> moonDeckAppId,
                          name |-> name,
                          redirected |-> FALSE,
                          beingKilled |-> FALSE,
                          beingSuspended |-> FALSE,
                          sessionOptions |-> [nameSetToAppId |-> nameSetToAppId]]
           /\ tasks'[t].log = <<[type |-> "next", value |-> subject']>>
           /\ tasks'[t].pc = "idle"
           /\ tasks'[t].status = "fulfilled"]_vars

\* setApp called over an app that was redirected, being suspended and being
\* killed, with other identities, another name and the other option.
C11_Witness ==
    \E t \in TaskIds :
        /\ Done(tasks[t], "setApp")
        /\ tasks[t].entry # NULL
        /\ tasks[t].entry.redirected
        /\ tasks[t].entry.beingKilled
        /\ tasks[t].entry.beingSuspended
        /\ tasks[t].entry.steamAppId # subject.steamAppId
        /\ tasks[t].entry.moonDeckAppId # subject.moonDeckAppId
        /\ tasks[t].entry.name # subject.name
        /\ tasks[t].entry.sessionOptions # subject.sessionOptions
        /\ ~subject.redirected
        /\ ~subject.beingKilled
        /\ ~subject.beingSuspended

(* ------------------------------------------------------------------ C12 *)

\* C12: applySessionOptions on an app that was set makes one setShortcutName
\* call, for the stored nameSetToAppId; the stored snapshot is what it was
\* whatever the call resolved to, nothing is emitted, and the warning toast
\* is raised once when the call failed and not at all when it succeeded.
C12_ApplySessionOptions ==
    \A t \in TaskIds :
        LET tk == tasks[t]
        IN (Done(tk, "applySessionOptions") /\ tk.entry # NULL) =>
             /\ tk.status = "fulfilled"
             /\ CountType(tk.log, "setShortcutName") = 1
             /\ tk.log[1] =
                  [type |-> "setShortcutName",
                   appId |-> tk.entry.moonDeckAppId,
                   name |-> IF tk.entry.sessionOptions.nameSetToAppId
                            THEN Decimal[tk.entry.steamAppId]
                            ELSE tk.entry.name]
             /\ subject = tk.entry
             /\ CountType(tk.log, "next") = 0
             /\ (HasResolved(tk.log, "setShortcutName", FALSE) =>
                   /\ CountType(tk.log, "toast") = 1
                   /\ tk.log[Len(tk.log)] =
                        [type |-> "toast",
                         msg |-> "Failed to change shortcut name!",
                         output |-> "warn"])
             /\ (HasResolved(tk.log, "setShortcutName", TRUE) =>
                   CountType(tk.log, "toast") = 0)

\* applySessionOptions completed after a rename to the app id that failed.
C12_Witness ==
    \E t \in TaskIds :
        /\ Done(tasks[t], "applySessionOptions")
        /\ tasks[t].entry # NULL
        /\ tasks[t].entry.sessionOptions.nameSetToAppId
        /\ HasResolved(tasks[t].log, "setShortcutName", FALSE)
        /\ CountType(tasks[t].log, "toast") = 1

(* ------------------------------------------------------------------ C13 *)

\* No operation is in flight.
Settled == \A t \in TaskIds : ~InFlight(tasks[t])

\* The stored flag says what the last successful rename of the session named
\* the shortcut after.
FlagMatchesHost ==
    subject.sessionOptions.nameSetToAppId = (latch.renamed = "appId")

\* C13 as stated: whenever no operation is in flight, the stored
\* nameSetToAppId is the override state the last successful setShortcutName
\* call of the session established, also after killApp.
C13_FlagIsHostState ==
    (Settled /\ subject # NULL /\ latch.renamed # "none") => FlagMatchesHost

\* C13 amended: whenever no operation is in flight, the stored
\* nameSetToAppId is the override state the last successful setShortcutName
\* call of the session established, except on a session killApp has run on
\* (beingKilled is true): there the flag may be true while the last
\* successful rename gave the shortcut its human-readable name.
C13_FlagIsHostStateUnlessKilled ==
    (Settled /\ subject # NULL /\ latch.renamed # "none") =>
        \/ FlagMatchesHost
        \/ /\ subject.beingKilled
           /\ subject.sessionOptions.nameSetToAppId
           /\ latch.renamed = "name"

\* killApp completed on an app whose flag was true after a rename that
\* succeeded: the flag is true again, the shortcut has its human-readable
\* name.
C13_Witness ==
    \E t \in TaskIds :
        /\ Done(tasks[t], "killApp")
        /\ tasks[t].entry # NULL
        /\ tasks[t].entry.sessionOptions.nameSetToAppId
        /\ HasResolved(tasks[t].log, "setShortcutName", TRUE)
        /\ latch.renamed = "name"
        /\ subject.sessionOptions.nameSetToAppId
        /\ subject.beingKilled

(* ------------------------------------------------------------------ C14 *)

\* The places of the events of one type in a log.
PlacesOf(log, type) == {i \in 1..Len(log) : log[i].type = type}

\* C14: in a run of the kill sequence the setShortcutName call to the stored
\* name comes before the terminateApp call, also when the flag was already
\* false and also when the rename fails, and it is the only setShortcutName
\* call of the run: writing the flag back calls nothing.
C14_RenameOnceBeforeTerminate ==
    \A t \in TaskIds :
        LET tk == tasks[t]
            renames == PlacesOf(tk.log, "setShortcutName")
        IN KillRun(tk) =>
             /\ Cardinality(renames) <= 1
             /\ \A i \in renames :
                  tk.log[i] = [type |-> "setShortcutName",
                               appId |-> tk.entry.moonDeckAppId,
                               name |-> tk.entry.name]
             /\ \A j \in PlacesOf(tk.log, "terminateApp") :
                  \E i \in renames : i < j
             /\ (Done(tk, tk.op) => Cardinality(renames) = 1)

\* killApp completed on an app whose flag was false, after a rename that
\* failed and a terminateApp that followed it.
C14_Witness ==
    \E t \in TaskIds :
        /\ Done(tasks[t], "killApp")
        /\ tasks[t].entry # NULL
        /\ ~tasks[t].entry.sessionOptions.nameSetToAppId
        /\ HasResolved(tasks[t].log, "setShortcutName", FALSE)
        /\ PlacesOf(tasks[t].log, "terminateApp") # {}

(* ------------------------------------------------------------------ C15 *)

RemoteCalls == {"setShortcutName", "terminateApp", "kill_runner"}

\* C15: in a run of the kill sequence a snapshot with beingKilled = true is
\* emitted (and is the stored one) before the first remote call is made.
C15_KilledMarkedBeforeRemoteCalls ==
    \A t \in TaskIds :
        LET tk == tasks[t]
        IN KillRun(tk) =>
             \A i \in 1..Len(tk.log) :
                 tk.log[i].type \in RemoteCalls =>
                    /\ \E j \in 1..(i - 1) :
                          /\ tk.log[j].type = "next"
                          /\ tk.log[j].value # NULL
                          /\ tk.log[j].value.beingKilled
                    /\ subject # NULL
                    /\ subject.beingKilled

\* killApp on an app not yet being killed has marked it and called
\* setShortcutName, which has not resolved yet.
C15_Witness ==
    \E t \in TaskIds :
        /\ tasks[t].op = "killApp"
        /\ tasks[t].pc = "changeName_await"
        /\ tasks[t].entry # NULL
        /\ ~tasks[t].entry.beingKilled
        /\ Len(tasks[t].log) = 2
        /\ tasks[t].log[1] = NextEvent(subject)
        /\ tasks[t].log[2].type = "setShortcutName"
        /\ subject.beingKilled

(* ------------------------------------------------------------------ C16 *)

\* The step is a setApp call.
IsSetAppStep ==
    \E t \in TaskIds, steamAppId \in SteamAppIds,
       moonDeckAppId \in MoonDeckAppIds, name \in Names,
       nameSetToAppId \in BOOLEAN :
        setApp(t, steamAppId, moonDeckAppId, name,
               [nameSetToAppId |-> nameSetToAppId])

\* The step is the one of clearApp that empties the slot.
IsClearAppStep ==
    \E t \in TaskIds : tasks[t].op = "clearApp" /\ clearApp_resume(t)

\* C16: no step other than a setApp call or the emptying of the slot turns
\* redirected, beingKilled or beingSuspended from true to false.
C16_FlagsMonotone ==
    [][(subject # NULL /\ subject' # NULL /\ ~IsSetAppStep) =>
          /\ (subject.redirected => subject'.redirected)
          /\ (subject.beingKilled => subject'.beingKilled)
          /\ (subject.beingSuspended => subject'.beingSuspended)]_vars

\* An app with the three flags true after a changeName that succeeded and
\* changed the stored snapshot.
C16_Witness ==
    \E t \in TaskIds :
        /\ Done(tasks[t], "changeName")
        /\ tasks[t].entry # NULL
        /\ tasks[t].entry.redirected
        /\ tasks[t].entry.beingKilled
        /\ tasks[t].entry.beingSuspended
        /\ subject # tasks[t].entry
        /\ subject.redirected
        /\ subject.beingKilled
        /\ subject.beingSuspended

(* ------------------------------------------------------------------ C17 *)

\* C17: the slot goes from an app to empty only in the clearApp step that
\* empties it and from empty to an app only in a setApp call, and the app is
\* still in the slot when a kill sequence run on it completes.
C17_OnlyClearAndSetCross ==
    /\ [](\A t \in TaskIds :
             (KillRun(tasks[t]) /\ Done(tasks[t], tasks[t].op)) => subject # NULL)
    /\ [][/\ (subject # NULL /\ subject' = NULL) => IsClearAppStep
          /\ (subject = NULL /\ subject' # NULL) => IsSetAppStep]_vars

\* suspendApp completed through the kill_runner fallback on an app set
\* before: the app is still stored.
C17_Witness ==
    \E t \in TaskIds :
        /\ Done(tasks[t], "suspendApp")
        /\ tasks[t].entry # NULL
        /\ tasks[t].prev.op = "setApp"
        /\ CountType(tasks[t].log, "kill_runner") = 1
        /\ subject # NULL
        /\ subject.moonDeckAppId = tasks[t].entry.moonDeckAppId

(* ------------------------------------------------------------------ C18 *)

\* C18: with calls serialized a run of the kill sequence takes every step
\* and is fulfilled: terminateApp is called after a failed rename, kill_runner
\* after a failed terminateApp, a kill_runner failure or fault is logged once
\* and not thrown, and the flag is written back after it.
C18_KillAppRunsToCompletion ==
    \A t \in TaskIds :
        LET tk == tasks[t]
            faults == {i \in PlacesOf(tk.log, "resolved") :
                          tk.log[i] = Resolved("kill_runner", FALSE)}
        IN KillRun(tk) =>
             /\ tk.status # "rejected"
             /\ Cardinality(PlacesOf(tk.log, "logger")) = Cardinality(faults)
             /\ (Done(tk, tk.op) =>
                   /\ tk.status = "fulfilled"
                   /\ Cardinality(PlacesOf(tk.log, "setShortcutName")) = 1
                   /\ Cardinality(PlacesOf(tk.log, "terminateApp")) = 1
                   /\ (HasResolved(tk.log, "terminateApp", FALSE) =>
                         /\ Cardinality(PlacesOf(tk.log, "kill_runner")) = 1
                         /\ Cardinality(PlacesOf(tk.log, "toast")) = 1
                         /\ \/ HasResolved(tk.log, "kill_runner", TRUE)
                            \/ HasResolved(tk.log, "kill_runner", FALSE))
                   /\ subject # NULL
                   /\ subject.sessionOptions.nameSetToAppId
                        = tk.entry.sessionOptions.nameSetToAppId)

\* killApp completed on an app whose flag was true: the rename succeeded,
\* terminateApp failed, kill_runner threw, the fault was logged as critical
\* and the last event is the emit that writes the flag back.
C18_Witness ==
    \E t \in TaskIds :
        LET tk == tasks[t]
        IN /\ Done(tk, "killApp")
           /\ tk.status = "fulfilled"
           /\ tk.entry # NULL
           /\ tk.entry.sessionOptions.nameSetToAppId
           /\ HasResolved(tk.log, "setShortcutName", TRUE)
           /\ HasResolved(tk.log, "terminateApp", FALSE)
           /\ \E i \in 1..Len(tk.log) : tk.log[i] = LoggerEvent("critical")
           /\ tk.log[Len(tk.log)] = NextEvent(subject)
           /\ subject.sessionOptions.nameSetToAppId

(* ------------------------------------------------------------------ C19 *)

\* Another caller has emptied the slot with clearApp and then set an app
\* into the empty slot.
ClearedAndSetBy(u) ==
    /\ Done(tasks[u], "setApp")
    /\ tasks[u].entry = NULL
    /\ tasks[u].prev.op = "clearApp"
    /\ tasks[u].prev.status = "fulfilled"
    /\ tasks[u].prev.notes >= 1

\* C19: the terminateApp call, the kill_runner call and every snapshot a run
\* of the kill sequence emits are for the app that was stored when the run
\* was called, also when another caller cleared that app and set another one
\* while the run was suspended at a remote call.
C19_KillTargetsItsOwnApp ==
    \A t \in TaskIds, u \in TaskIds :
        LET tk == tasks[t]
        IN (KillRun(tk) /\ u # t /\ ClearedAndSetBy(u)) =>
             \A i \in 1..Len(tk.log) :
                 /\ (tk.log[i].type = "terminateApp" =>
                       tk.log[i].appId = tk.entry.moonDeckAppId)
                 /\ (tk.log[i].type = "kill_runner" =>
                       tk.log[i].app_id = tk.entry.moonDeckAppId)
                 /\ (tk.log[i].type = "next" =>
                       tk.log[i].value.moonDeckAppId = tk.entry.moonDeckAppId)

(* ------------------------------------------------------------------ C20 *)

\* C20: a run of the kill sequence is never rejected, also when another
\* caller emptied the slot while the run was suspended at a remote call.
C20_KillSurvivesClear ==
    \A t \in TaskIds : KillRun(tasks[t]) => tasks[t].status # "rejected"
====
